---- MODULE Spec2Model ----
(***************************************************************************)
(* lipyphilic: AssignLeaflets (lib/assign_leaflets.py) and AreaPerLipid    *)
(* (lib/area_per_lipid.py) as state machines.                              *)
(*                                                                         *)
(* Coordinates are integers.  In the AssignLeaflets runs a unit is one     *)
(* length unit; in the AreaPerLipid runs x and y are counted in units of   *)
(* 0.001, the displacement _remove_overlapping applies.  A mean of z is    *)
(* kept as the exact pair (sum, count) and compared by cross               *)
(* multiplication, so no rounding enters the comparisons.                  *)
(***************************************************************************)
EXTENDS Integers, Sequences, FiniteSets, TLC

\* ------------------------------------------------------------------ bounds
NFrames == 2
\* largest z coordinate of an atom
MaxZ == 2
\* largest midplane_cutoff tried
MaxCutoff == 1
\* n_bins is 1, the default, or MaxBins
MaxBins == 2
\* box length Lx; Ly is Lx or Lx + BoxExtra
BoxX == 2
BoxExtra == 2
\* _remove_overlapping is tried on arrays of up to MaxAtoms rows with
\* x in 0..MaxCoord (units of 0.001) and y in 0..1
MaxAtoms == 3
MaxCoord == 2

\* None for an atom group: a value no selection returns (atoms are 1, 2, ...)
None == {0}
\* None for an array, and for the frame of the trajectory reader
NoArray == [ndim |-> 0, data |-> <<>>]
NoFrame == [dimensions |-> <<>>, positions |-> <<>>, volumes |-> <<>>]
\* not-a-number in the Area Array, whose numbers are all positive
NaN == -1
NoError == "NoError"

VARIABLES
    analysis,            \* the class that was instantiated
    u,                   \* self.u: the universe (topology)
    membrane,            \* self.membrane: the atoms lipid_sel selects
    potential_midplane,  \* self.potential_midplane: atoms of midplane_sel, or None
    midplane_cutoff,     \* self.midplane_cutoff
    n_bins,              \* self.n_bins
    leaflets,            \* self.leaflets
    areas,               \* self.areas
    frame_index,         \* self._frame_index
    ts,                  \* self._ts: the frame being processed, None between frames
    status,              \* position of the run loop
    error,               \* the exception that ended the run, or NoError
    positions            \* the array handed to _remove_overlapping

vars == <<analysis, u, membrane, potential_midplane, midplane_cutoff, n_bins,
          leaflets, areas, frame_index, ts, status, error, positions>>

config == <<analysis, u, membrane, potential_midplane, midplane_cutoff, n_bins>>

FrameRange == 0..(NFrames - 1)

\* -------------------------------------------------------------- topology
\* A cholesterol (atoms ROH = 1, C2 = 2) and a phospholipid (atom GL1 = 3).
LeafletUniverse ==
    [atoms |-> {1, 2, 3},
     resindices |-> <<1, 1, 2>>,
     resnames |-> <<"CHOL", "POPC">>]

\* ag.residues.resindices
Residues(ag) == {u.resindices[a] : a \in ag}

\* ag.residues.atoms
ResidueAtoms(ag) == {a \in u.atoms : u.resindices[a] \in Residues(ag)}

\* lipid_sel / midplane_sel pairs: no midplane selection; the module
\* docstring's example, where C2 is in midplane_sel but not in lipid_sel;
\* and a midplane selection that is a part of lipid_sel.
LeafletSelections ==
    {[lipid_sel |-> {1, 3}, midplane_sel |-> None],
     [lipid_sel |-> {1, 3}, midplane_sel |-> {1, 2}],
     [lipid_sel |-> {1, 2, 3}, midplane_sel |-> {1}]}

\* ---------------------------------------------------------------- frames
\* Box dimensions of a frame: Lx, Ly, Lz.  Lz exceeds every z.
BoxDimensions == {<<BoxX, BoxX, MaxZ + 1>>, <<BoxX, BoxX + BoxExtra, MaxZ + 1>>}

\* Where an atom of a frame may be in xy: the origin, or on the box's upper
\* x boundary one unit below the upper y boundary.
XYPoints(dims) == {<<0, 0>>, <<dims[1], dims[2] - 1>>}

AtomPositions(dims) ==
    {<<p[1], p[2], z>> : p \in XYPoints(dims), z \in 0..MaxZ}

\* AtomGroup.wrap(inplace=True): every coordinate into [0, L)
WrapPos(p, dims) == <<p[1] % dims[1], p[2] % dims[2], p[3] % dims[3]>>

\* positions after ag.wrap(inplace=True)
Wrapped(raw, dims, ag) ==
    [a \in DOMAIN raw |-> IF a \in ag THEN WrapPos(raw[a], dims) ELSE raw[a]]

\* ------------------------------------------------------- spatial binning
\* np.linspace(0.0, L, n + 1): edge i is num[i] / den
Linspace(L, n) == [num |-> [i \in 1..(n + 1) |-> (i - 1) * L], den |-> n]

\* np.digitize(v, edges): the number of edges <= v
Digitize(v, bins) ==
    Cardinality({i \in 1..Len(bins.num) : bins.num[i] <= v * bins.den})

\* scipy _bin_numbers: digitize, a value on the rightmost edge moved into
\* the last bin.  0 and Len(edges) are the outlier bins.
BinNumber(v, bins) ==
    IF v * bins.den = bins.num[Len(bins.num)]
    THEN Digitize(v, bins) - 1
    ELSE Digitize(v, bins)

\* the one element of a one-element set
Only(S) == CHOOSE x \in S : TRUE

\* the sum of z over the atoms s
RECURSIVE SumZ(_, _)
SumZ(pos, s) ==
    IF s = {} THEN 0
    ELSE LET a == CHOOSE b \in s : TRUE
         IN pos[a][3] + SumZ(pos, s \ {a})

\* the bin numbers binned_statistic_2d returns with expand_binnumbers=True:
\* binnumber[a] is the pair (x bin number, y bin number) of atom a
BinNumbers(ag, pos, bins) ==
    [a \in ag |-> <<BinNumber(pos[a][1], bins), BinNumber(pos[a][2], bins)>>]

\* binned_statistic_2d(x, y, values, "mean", bins, expand_binnumbers=True)
\* over the atoms ag at positions pos.  A bins array of length 2 is read by
\* scipy as the bin counts (nx, ny) = (0.0, L): the x axis gets a single
\* edge, and taking the smallest edge difference raises ValueError.
\* Otherwise bins holds the edges of both axes; statistic[i][j] is the mean
\* of z over the atoms of bin (i, j) kept as (sum, count), count 0 being
\* not-a-number.
BinnedStatistic2d(ag, pos, bins) ==
    IF Len(bins.num) = 2
    THEN [error |-> "ValueError: zero-size array", statistic |-> <<>>, binnumber |-> <<>>]
    ELSE Only({[error |-> NoError,
                statistic |->
                    [i \in 0..(Len(bins.num) - 2) |->
                        [j \in 0..(Len(bins.num) - 2) |->
                            Only({[sum |-> SumZ(pos, in_bin),
                                   count |-> Cardinality(in_bin)] :
                                in_bin \in {{a \in ag : number[a] = <<i + 1, j + 1>>}}})]],
                binnumber |-> number] :
            number \in {BinNumbers(ag, pos, bins)}})

\* statistic[i, j] of numpy: a negative index counts from the end, an index
\* outside -n..n-1 raises IndexError.
IndexInRange(i, n) == -n <= i /\ i <= n - 1

NumpyIndex(i, n) == IF i < 0 THEN i + n ELSE i

Lookup(statistic, i, j) ==
    LET n == Cardinality(DOMAIN statistic)
    IN statistic[NumpyIndex(i, n)][NumpyIndex(j, n)]

\* z > mean + cutoff; False when the mean is not-a-number
Above(z, mean, cutoff) ==
    mean.count > 0 /\ z * mean.count > mean.sum + cutoff * mean.count

\* z < mean - cutoff; False when the mean is not-a-number
Below(z, mean, cutoff) ==
    mean.count > 0 /\ z * mean.count < mean.sum - cutoff * mean.count

\* np.abs(z - mean) > cutoff; False when the mean is not-a-number
FurtherThan(z, mean, cutoff) ==
    Above(z, mean, cutoff) \/ Below(z, mean, cutoff)

\* ------------------------------------------------- AssignLeaflets, a frame
\* the local midpoint M(atom) = statistic[x_bin, y_bin]
Midpoint(statistic, number, a) ==
    Lookup(statistic, number[a][1] - 1, number[a][2] - 1)

\* whether statistic[x_bins, y_bins] can be taken for every atom
AllInRange(number, n) ==
    \A a \in DOMAIN number :
        IndexInRange(number[a][1] - 1, n) /\ IndexInRange(number[a][2] - 1, n)

\* the residues whose label "self.leaflets[np.in1d(...), frame] = value" sets
AssignLabel(column, residues, value) ==
    [r \in DOMAIN column |-> IF r \in residues THEN value ELSE column[r]]

\* a variant that stores the lower leaflet's label in an unsigned byte
AssignUpperLowerUnsigned(column, pos, statistic, number) ==
    LET upper_leaflet ==
            {a \in membrane :
                Above(pos[a][3], Midpoint(statistic, number, a), midplane_cutoff)}
        lower_leaflet ==
            {a \in membrane :
                Below(pos[a][3], Midpoint(statistic, number, a), midplane_cutoff)}
    IN AssignLabel(AssignLabel(column, Residues(upper_leaflet), 1),
                   Residues(lower_leaflet), 255)

\* upper leaflet, then lower leaflet
AssignUpperLower(column, pos, statistic, number) ==
    LET upper_leaflet ==
            {a \in membrane :
                Above(pos[a][3], Midpoint(statistic, number, a), midplane_cutoff)}
        lower_leaflet ==
            {a \in membrane :
                Below(pos[a][3], Midpoint(statistic, number, a), midplane_cutoff)}
    IN AssignLabel(AssignLabel(column, Residues(upper_leaflet), 1),
                   Residues(lower_leaflet), -1)

\* a variant that compares z - M, not its absolute value, with the cutoff
MidplaneResiduesSigned(pos, statistic, number) ==
    LET not_midplane ==
            {a \in potential_midplane :
                Above(pos[a][3], Midpoint(statistic, number, a), midplane_cutoff)}
    IN Residues(potential_midplane) \ Residues(not_midplane)

\* the residues of potential_midplane that have no atom further than
\* midplane_cutoff from its local midpoint
MidplaneResidues(pos, statistic, number) ==
    LET not_midplane ==
            {a \in potential_midplane :
                FurtherThan(pos[a][3], Midpoint(statistic, number, a),
                            midplane_cutoff)}
    IN Residues(potential_midplane) \ Residues(not_midplane)

CheckMidplane == potential_midplane # None /\ midplane_cutoff > 0

\* lines 237-273: the midplane block, entered with the column the
\* upper/lower step left
AssignMidplane(assigned, pos_m, statistic, midplane_bins) ==
    IF ~AllInRange(midplane_bins, n_bins)
    THEN [error |-> "IndexError", column |-> assigned]
    ELSE [error |-> NoError,
          column |-> AssignLabel(assigned,
              MidplaneResidues(pos_m, statistic, midplane_bins), 0)]

\* lines 216-273, entered with the midpoint grid and the bin numbers of the
\* membrane atoms
AssignBinned(column, dims, bins, pos, memb_midpoint_xy, lipid_bins) ==
    IF memb_midpoint_xy.error # NoError
    THEN [error |-> memb_midpoint_xy.error, column |-> column]
    ELSE IF ~AllInRange(lipid_bins, n_bins)
    THEN [error |-> "IndexError", column |-> column]
    ELSE IF ~CheckMidplane
    THEN [error |-> NoError,
          column |-> AssignUpperLower(column, pos, memb_midpoint_xy.statistic,
                                      lipid_bins)]
    ELSE Only({AssignMidplane(assigned, pos_m, memb_midpoint_xy.statistic,
                              BinNumbers(potential_midplane, pos_m, bins)) :
                 assigned \in {AssignUpperLower(column, pos,
                                  memb_midpoint_xy.statistic, lipid_bins)},
                 pos_m \in {Wrapped(pos, dims, potential_midplane)}})

\* lines 190-214, entered with the wrapped positions and the bin edges
AssignWrapped(column, dims, bins, pos) ==
    Only({AssignBinned(column, dims, bins, pos, memb_midpoint_xy, lipid_bins) :
            memb_midpoint_xy \in {BinnedStatistic2d(ResidueAtoms(membrane), pos, bins)},
            lipid_bins \in {BinNumbers(membrane, pos, bins)}})

\* AssignLeaflets._single_frame on a frame; column is leaflets[:, frame_index]
\* before the call.  The result is the column after the call and the
\* exception raised, if any.
AssignSingleFrame(column, frame) ==
    Only({AssignWrapped(column, frame.dimensions, bins, pos) :
            bins \in {Linspace(frame.dimensions[1], n_bins)},
            pos \in {Wrapped(frame.positions, frame.dimensions, membrane)}})

\* ---------------------------------------------------------------- arrays
Column(array, f) == [r \in DOMAIN array.data |-> array.data[r][f]]

\* a variant that writes the column into every frame
SetColumnBroadcast(array, f, column) ==
    [array EXCEPT !.data =
        [r \in DOMAIN array.data |-> [g \in DOMAIN array.data[r] |-> column[r]]]]

SetColumn(array, f, column) ==
    [array EXCEPT !.data =
        [r \in DOMAIN array.data |-> [array.data[r] EXCEPT ![f] = column[r]]]]

Full(residues, fill_value) ==
    [ndim |-> 2, data |-> [r \in residues |-> [f \in FrameRange |-> fill_value]]]

\* ------------------------------------------------- AssignLeaflets, the run
InitAssignLeaflets ==
    /\ analysis = "AssignLeaflets"
    /\ u = LeafletUniverse
    /\ \E sel \in LeafletSelections :
        /\ membrane = sel.lipid_sel
        /\ potential_midplane = sel.midplane_sel
    /\ midplane_cutoff \in 0..MaxCutoff
    /\ n_bins \in {1, MaxBins}
    /\ leaflets = NoArray
    /\ areas = NoArray
    /\ frame_index = -1
    /\ ts = NoFrame
    /\ status = "constructed"
    /\ error = NoError
    /\ positions = <<>>

AssignPrepare ==
    /\ analysis = "AssignLeaflets"
    /\ status = "constructed"
    /\ leaflets' = Full(Residues(membrane), 0)
    /\ status' = "prepared"
    /\ UNCHANGED <<config, areas, frame_index, ts, error, positions>>

\* the run loop reads the next frame and calls _single_frame
AssignFrame ==
    /\ analysis = "AssignLeaflets"
    /\ status \in {"prepared", "loop"}
    /\ frame_index + 1 < NFrames
    /\ \E d \in BoxDimensions : \E p \in [u.atoms -> AtomPositions(d)] :
        LET frame == [dimensions |-> d, positions |-> p, volumes |-> <<>>]
        IN \E out \in {AssignSingleFrame(Column(leaflets, frame_index + 1), frame)} :
           /\ ts' = frame
           /\ frame_index' = frame_index + 1
           /\ leaflets' = SetColumn(leaflets, frame_index + 1, out.column)
           /\ error' = out.error
           /\ status' = IF out.error = NoError THEN "frame" ELSE "error"
    /\ UNCHANGED <<config, areas, positions>>

\* the loop is done with the frame
EndFrame ==
    /\ status = "frame"
    /\ ts' = NoFrame
    /\ status' = IF frame_index + 1 < NFrames THEN "loop" ELSE "done"
    /\ UNCHANGED <<config, leaflets, areas, frame_index, error, positions>>

\* ------------------------------------------------- AreaPerLipid, topology
\* Two phospholipids (atoms 1-3 and 4-5) and a cholesterol (atom 6).
AreaUniverse ==
    [atoms |-> 1..6,
     resindices |-> <<1, 1, 1, 2, 2, 3>>,
     resnames |-> <<"POPC", "POPC", "CHOL">>]

\* lipid_sel: two atoms of each phospholipid; three atoms of one and one of
\* the other; two atoms of one and one of the other.  The cholesterol's atom
\* is always selected.
AreaSelections == {{1, 2, 4, 5, 6}, {1, 2, 3, 4, 6}, {1, 2, 4, 6}}

Resname(a) == u.resnames[u.resindices[a]]

\* np.unique of the resnames, which sorts them
SortedNames == <<"CHOL", "POPC">>

lipid_species ==
    SelectSeq(SortedNames, LAMBDA name : \E a \in membrane : Resname(a) = name)

\* self._num_seeds[lipid]
num_seeds(lipid) ==
    Cardinality({a \in membrane : Resname(a) = lipid})
        \div Cardinality({r \in Residues(membrane) : u.resnames[r] = lipid})

\* the elements of a set of integers, ascending
RECURSIVE Sorted(_)
Sorted(S) ==
    IF S = {} THEN <<>>
    ELSE LET m == CHOOSE x \in S : \A y \in S : x <= y
         IN <<m>> \o Sorted(S \ {m})

\* ---------------------------------------------------- _remove_overlapping
\* np.unique(positions, return_index=True, return_counts=True, axis=0):
\* for the row at i, the index of its first occurrence and its count
FirstIndex(pos, i) ==
    CHOOSE j \in 1..Len(pos) :
        pos[j] = pos[i] /\ \A k \in 1..(j - 1) : pos[k] # pos[i]

Count(pos, i) == Cardinality({j \in 1..Len(pos) : pos[j] = pos[i]})

\* indices[counts > 1]
DuplicateIndices(pos) ==
    {FirstIndex(pos, i) : i \in {j \in 1..Len(pos) : Count(pos, j) > 1}}

\* AreaPerLipid._remove_overlapping: max() of an empty counts raises
\* ValueError; otherwise the row at each duplicate index gets x + 0.001.
RemoveOverlapping(pos) ==
    IF Len(pos) = 0
    THEN [error |-> "ValueError: max() arg is an empty sequence", positions |-> pos]
    ELSE [error |-> NoError,
          positions |->
              [i \in 1..Len(pos) |->
                  IF i \in DuplicateIndices(pos)
                  THEN <<pos[i][1] + 1, pos[i][2], pos[i][3]>>
                  ELSE pos[i]]]

\* -------------------------------------------------------- _get_atom_areas
\* freud's Voronoi: it complains when two generator points coincide;
\* otherwise each atom gets the area of its cell
Coincide(pos) ==
    \E i, j \in 1..Len(pos) :
        i # j /\ pos[i][1] = pos[j][1] /\ pos[i][2] = pos[j][2]

GetAtomAreas(pos, atoms, volumes) ==
    IF Coincide(pos)
    THEN [error |-> "FreudError", areas |-> <<>>]
    ELSE [error |-> NoError, areas |-> [i \in 1..Len(atoms) |-> volumes[atoms[i]]]]

\* ---------------------------------------------------- _get_area_per_lipid
RECURSIVE SumSeq(_)
SumSeq(q) == IF q = <<>> THEN 0 ELSE Head(q) + SumSeq(Tail(q))

\* a variant that reshapes to (seeds, n_residues) and sums over axis 0
SpeciesAreasStrided(column, atoms, atom_areas, species) ==
    LET species_indices == SelectSeq([i \in 1..Len(atoms) |-> i],
                               LAMBDA i : Resname(atoms[i]) = species)
        species_apl == [k \in 1..Len(species_indices) |->
                           atom_areas[species_indices[k]]]
        species_residues ==
            Sorted({u.resindices[atoms[species_indices[k]]] :
                        k \in 1..Len(species_indices)})
        n_residues == Len(species_residues)
        seeds == num_seeds(species)
    IN IF Len(species_apl) # n_residues * seeds
       THEN [error |-> "ValueError: cannot reshape array", column |-> column]
       ELSE [error |-> NoError,
             column |->
                 [r \in DOMAIN column |->
                     IF \E k \in 1..n_residues : species_residues[k] = r
                     THEN LET k == CHOOSE k \in 1..n_residues :
                                       species_residues[k] = r
                          IN SumSeq([s \in 1..seeds |->
                                        species_apl[(s - 1) * n_residues + k]])
                     ELSE column[r]]]

\* a variant that sums the atoms it finds in each group of seeds instead of
\* reshaping
SpeciesAreasUnchecked(column, atoms, atom_areas, species) ==
    LET species_indices == SelectSeq([i \in 1..Len(atoms) |-> i],
                               LAMBDA i : Resname(atoms[i]) = species)
        species_apl == [k \in 1..Len(species_indices) |->
                           atom_areas[species_indices[k]]]
        species_residues ==
            Sorted({u.resindices[atoms[species_indices[k]]] :
                        k \in 1..Len(species_indices)})
        n_residues == Len(species_residues)
        seeds == num_seeds(species)
    IN [error |-> NoError,
        column |->
            [r \in DOMAIN column |->
                IF \E k \in 1..n_residues : species_residues[k] = r
                THEN LET k == CHOOSE k \in 1..n_residues :
                                  species_residues[k] = r
                     IN SumSeq([s \in 1..seeds |->
                                   IF (k - 1) * seeds + s <= Len(species_apl)
                                   THEN species_apl[(k - 1) * seeds + s]
                                   ELSE 0])
                ELSE column[r]]]

\* the loop body for one species: column is areas[:, frame_index]
SpeciesAreas(column, atoms, atom_areas, species) ==
    LET species_indices == SelectSeq([i \in 1..Len(atoms) |-> i],
                               LAMBDA i : Resname(atoms[i]) = species)
        species_apl == [k \in 1..Len(species_indices) |->
                           atom_areas[species_indices[k]]]
        species_residues ==
            Sorted({u.resindices[atoms[species_indices[k]]] :
                        k \in 1..Len(species_indices)})
        n_residues == Len(species_residues)
        seeds == num_seeds(species)
    IN IF Len(species_apl) # n_residues * seeds
       THEN [error |-> "ValueError: cannot reshape array", column |-> column]
       ELSE [error |-> NoError,
             column |->
                 [r \in DOMAIN column |->
                     IF \E k \in 1..n_residues : species_residues[k] = r
                     THEN LET k == CHOOSE k \in 1..n_residues :
                                       species_residues[k] = r
                          IN SumSeq(SubSeq(species_apl,
                                           (k - 1) * seeds + 1, k * seeds))
                     ELSE column[r]]]

\* the loop over self._lipid_species, from species number s on
RECURSIVE AreaPerLipidFrom(_, _, _, _)
AreaPerLipidFrom(s, column, atoms, atom_areas) ==
    IF s > Len(lipid_species)
    THEN [error |-> NoError, column |-> column]
    ELSE LET done == SpeciesAreas(column, atoms, atom_areas, lipid_species[s])
         IN IF done.error # NoError
            THEN done
            ELSE AreaPerLipidFrom(s + 1, done.column, atoms, atom_areas)

GetAreaPerLipid(column, atoms, atom_areas) ==
    AreaPerLipidFrom(1, column, atoms, atom_areas)

\* ------------------------------------------------- AreaPerLipid, a frame
\* the body of "for leaflet_sign in [-1, 1]"
LeafletAreas(column, frame_leaflets, frame, leaflet_sign) ==
    LET leaflet == {r \in Residues(membrane) : frame_leaflets[r] = leaflet_sign}
        atoms == Sorted({a \in ResidueAtoms(membrane) :
                            u.resindices[a] \in leaflet} \cap membrane)
        wrapped == Wrapped(frame.positions, frame.dimensions, membrane)
        pos == [i \in 1..Len(atoms) |->
                   <<wrapped[atoms[i]][1], wrapped[atoms[i]][2], 0>>]
        moved == RemoveOverlapping(pos)
        cells == GetAtomAreas(moved.positions, atoms, frame.volumes)
    IN IF moved.error # NoError
       THEN [error |-> moved.error, column |-> column]
       ELSE IF cells.error # NoError
       THEN [error |-> cells.error, column |-> column]
       ELSE GetAreaPerLipid(column, atoms, cells.areas)

\* a variant that visits the upper leaflet only
UpperLeafletOnly == <<1>>

\* for leaflet_sign in [-1, 1]
LeafletSigns == <<-1, 1>>

RECURSIVE AreaSignsFrom(_, _, _, _)
AreaSignsFrom(s, column, frame_leaflets, frame) ==
    IF s > Len(LeafletSigns)
    THEN [error |-> NoError, column |-> column]
    ELSE LET done == LeafletAreas(column, frame_leaflets, frame, LeafletSigns[s])
         IN IF done.error # NoError
            THEN done
            ELSE AreaSignsFrom(s + 1, done.column, frame_leaflets, frame)

\* self.leaflets[:, self._frame_index] if self.leaflets.ndim == 2 else self.leaflets
FrameLeaflets(f) == IF leaflets.ndim = 2 THEN Column(leaflets, f) ELSE leaflets.data

\* AreaPerLipid._single_frame; column is areas[:, frame_index] before the call
AreaSingleFrame(column, frame_leaflets, frame) ==
    AreaSignsFrom(1, column, frame_leaflets, frame)

\* ------------------------------------------------- AreaPerLipid, the run
Labels == {-1, 0, 1}

\* leaflets of ndim 1
LeafletArrays1D(residues) ==
    {[ndim |-> 1, data |-> d] : d \in [residues -> Labels]}

\* of ndim 2: a phospholipid stays in its leaflet, the cholesterol may
\* change leaflet from frame to frame
LeafletArrays2D(residues, n_cols) ==
    {[ndim |-> 2,
      data |-> [r \in residues |->
                  IF u.resnames[r] = "CHOL" THEN sterol
                  ELSE [f \in 0..(n_cols - 1) |-> lipid[r]]]] :
        lipid \in [residues -> Labels], sterol \in [0..(n_cols - 1) -> Labels]}

\* the box of the AreaPerLipid runs, in units of 0.001
AreaBox == <<1000 * BoxX, 1000 * BoxX, MaxZ + 1>>

\* the frames: the atoms in a row along x, 0.001 apart or all at one point,
\* and the cell areas freud finds, all equal or all different
AreaFrames ==
    {[dimensions |-> AreaBox,
      positions |-> [a \in u.atoms |-> <<spread * a, 0, a % (MaxZ + 1)>>],
      volumes |-> v] :
        spread \in {0, 1},
        v \in {[a \in u.atoms |-> 1], [a \in u.atoms |-> 2 ^ (a - 1)]}}

InitAreaPerLipid ==
    /\ analysis = "AreaPerLipid"
    /\ u = AreaUniverse
    /\ membrane \in AreaSelections
    /\ potential_midplane = None
    /\ midplane_cutoff = 0
    /\ n_bins = 1
    /\ leaflets \in LeafletArrays1D(Residues(membrane))
                    \cup LeafletArrays2D(Residues(membrane), NFrames)
                    \cup LeafletArrays2D(Residues(membrane), NFrames - 1)
    /\ areas = NoArray
    /\ frame_index = -1
    /\ ts = NoFrame
    /\ status = "constructed"
    /\ error = NoError
    /\ positions = <<>>

\* leaflets.shape[1] != n_frames
ShapeMismatch ==
    leaflets.ndim = 2
        /\ \E r \in DOMAIN leaflets.data : DOMAIN leaflets.data[r] # FrameRange

AreaPrepare ==
    /\ analysis = "AreaPerLipid"
    /\ status = "constructed"
    /\ ~ShapeMismatch
    /\ areas' = Full(Residues(membrane), NaN)
    /\ status' = "prepared"
    /\ UNCHANGED <<config, leaflets, frame_index, ts, error, positions>>

AreaPrepareError ==
    /\ analysis = "AreaPerLipid"
    /\ status = "constructed"
    /\ ShapeMismatch
    /\ error' = "ValueError: The frames to analyse must be identical"
    /\ status' = "error"
    /\ UNCHANGED <<config, leaflets, areas, frame_index, ts, positions>>

\* the run loop reads the next frame and calls _single_frame
AreaFrame ==
    /\ analysis = "AreaPerLipid"
    /\ status \in {"prepared", "loop"}
    /\ frame_index + 1 < NFrames
    /\ \E frame \in AreaFrames :
        \E out \in {AreaSingleFrame(Column(areas, frame_index + 1),
                                    FrameLeaflets(frame_index + 1), frame)} :
           /\ ts' = frame
           /\ frame_index' = frame_index + 1
           /\ areas' = SetColumn(areas, frame_index + 1, out.column)
           /\ error' = out.error
           /\ status' = IF out.error = NoError THEN "frame" ELSE "error"
    /\ UNCHANGED <<config, leaflets, positions>>

\* ---------------------------------------- _remove_overlapping on its own
OverlapPoints == {<<x, y, 0>> : x \in 0..MaxCoord, y \in 0..1}

InitOverlap ==
    /\ analysis = "AreaPerLipid"
    /\ u = AreaUniverse
    /\ membrane = {}
    /\ potential_midplane = None
    /\ midplane_cutoff = 0
    /\ n_bins = 1
    /\ leaflets = NoArray
    /\ areas = NoArray
    /\ frame_index = -1
    /\ \E n \in 0..MaxAtoms : \E p \in [1..n -> OverlapPoints] :
        /\ ts = [dimensions |-> <<>>, positions |-> p, volumes |-> <<>>]
        /\ positions = p
    /\ status = "call"
    /\ error = NoError

\* self._remove_overlapping(positions=pos)
RemoveOverlappingCall ==
    /\ status = "call"
    /\ \E out \in {RemoveOverlapping(positions)} :
        /\ positions' = out.positions
        /\ error' = out.error
        /\ status' = IF out.error = NoError THEN "returned" ELSE "error"
    /\ UNCHANGED <<config, leaflets, areas, frame_index, ts>>

Init == InitAssignLeaflets \/ InitAreaPerLipid

Next ==
    \/ AssignPrepare
    \/ AssignFrame
    \/ AreaPrepare
    \/ AreaPrepareError
    \/ AreaFrame
    \/ EndFrame

Spec == Init /\ [][Next]_vars

SpecOverlap == InitOverlap /\ [][RemoveOverlappingCall]_vars

\* ------------------------------------------------------------- the claims
AssignRun == analysis = "AssignLeaflets" /\ leaflets.ndim = 2

AreaRun == analysis = "AreaPerLipid" /\ areas.ndim = 2

\* frame f was processed without error
Completed(f) ==
    f < frame_index \/ (f = frame_index /\ status \in {"frame", "loop", "done"})

\* ts holds a frame that was processed without error
Processed == status = "frame"

\* the atoms of residue r in the atom group ag
AtomsOf(ag, r) == {a \in ag : u.resindices[a] = r}

\* where atom a was when the midpoints were computed, and where the
\* midplane step found it
SeenAt(a) ==
    IF a \in membrane THEN WrapPos(ts.positions[a], ts.dimensions)
    ELSE ts.positions[a]

WrappedAt(a) == WrapPos(ts.positions[a], ts.dimensions)

\* the cell of the n_bins x n_bins grid over the box that holds point p
CellIndex(v, L) == IF v = L THEN n_bins - 1 ELSE (v * n_bins) \div L

Cell(p) ==
    <<CellIndex(p[1], ts.dimensions[1]), CellIndex(p[2], ts.dimensions[2])>>

\* the atoms whose mean z is the local midpoint at p
LocalAtoms(p) == {b \in ResidueAtoms(membrane) : Cell(SeenAt(b)) = Cell(p)}

\* the local midpoint at p, as the sum and the number of the z it averages
LocalMidpoint(p) ==
    Only({[sum |-> SumZ([a \in local |-> SeenAt(a)], local),
           count |-> Cardinality(local)] : local \in {LocalAtoms(p)}})

\* p is more than c above / below its local midpoint
HigherBy(p, c) ==
    \E m \in {LocalMidpoint(p)} :
        m.count > 0 /\ p[3] * m.count - m.sum > c * m.count

LowerBy(p, c) ==
    \E m \in {LocalMidpoint(p)} :
        m.count > 0 /\ m.sum - p[3] * m.count > c * m.count

\* p is at least c above / below its local midpoint
AtLeastHigherBy(p, c) ==
    \E m \in {LocalMidpoint(p)} :
        m.count > 0 /\ p[3] * m.count - m.sum >= c * m.count

AtLeastLowerBy(p, c) ==
    \E m \in {LocalMidpoint(p)} :
        m.count > 0 /\ m.sum - p[3] * m.count >= c * m.count

\* p lies within c of its local midpoint
Within(p, c) ==
    \E m \in {LocalMidpoint(p)} :
        /\ m.count > 0
        /\ p[3] * m.count - m.sum <= c * m.count
        /\ m.sum - p[3] * m.count <= c * m.count

\* p is more than c from its local midpoint
FurtherBy(p, c) ==
    \E m \in {LocalMidpoint(p)} :
        /\ m.count > 0
        /\ \/ p[3] * m.count - m.sum > c * m.count
           \/ m.sum - p[3] * m.count > c * m.count

Label(r) == leaflets.data[r][frame_index]

\* the residues of the midplane-eligible selection
EligibleResidues ==
    IF potential_midplane = None THEN {} ELSE Residues(potential_midplane)

\* C1: every entry of the Leaflet Label Array is -1, 0 or 1, after _prepare
\* and after any number of frames, whether or not a frame raised.
C1_LabelRange ==
    AssignRun =>
        \A r \in DOMAIN leaflets.data : \A f \in FrameRange :
            leaflets.data[r][f] \in {-1, 0, 1}

\* a run that ended with a residue in each of the three classes
C1_Witness ==
    /\ AssignRun
    /\ status = "done"
    /\ \A v \in {-1, 0, 1} :
        \E r \in DOMAIN leaflets.data : \E f \in FrameRange :
            leaflets.data[r][f] = v

\* C2: in a frame AreaPerLipid processed without error, the area of a
\* residue is not-a-number exactly when its leaflet label at that frame is 0.
C2_NaNIffMidplane ==
    AreaRun =>
        \A f \in FrameRange : Completed(f) =>
            \A r \in DOMAIN areas.data :
                areas.data[r][f] = NaN <=> FrameLeaflets(f)[r] = 0

\* a completed frame of a 2D leaflets array with a midplane residue and a
\* residue in a leaflet
C2_Witness ==
    /\ AreaRun
    /\ leaflets.ndim = 2
    /\ Processed
    /\ \E r, q \in DOMAIN areas.data :
        /\ FrameLeaflets(frame_index)[r] = 0
        /\ areas.data[r][frame_index] = NaN
        /\ FrameLeaflets(frame_index)[q] # 0
        /\ areas.data[q][frame_index] # NaN

\* C3, as claimed: a residue of the membrane selection outside the
\* midplane-eligible selection is never labeled 0 in a processed frame.
C3_NotEligibleNeverMidplane ==
    AssignRun =>
        \A f \in FrameRange : Completed(f) =>
            \A r \in Residues(membrane) \ EligibleResidues :
                leaflets.data[r][f] # 0

\* a frame with a midplane selection and a cutoff in force in which the
\* phospholipid, which is not eligible, is labeled 0
C3_Witness ==
    /\ AssignRun
    /\ Processed
    /\ CheckMidplane
    /\ \E r \in Residues(membrane) \ EligibleResidues : Label(r) = 0

\* C4, as claimed: without a midplane selection, a residue with an atom at
\* least midplane_cutoff above or below its local midpoint is not labeled 0
\* (read for midplane_cutoff > 0; at 0 every atom is "at least" 0 away), and
\* with midplane_cutoff = 0 a residue is labeled -1 or 1 unless all its
\* atoms are exactly at their midpoint.
C4_AtLeastCutoff ==
    (AssignRun /\ Processed /\ potential_midplane = None) =>
        \A r \in Residues(membrane) :
            /\ (midplane_cutoff > 0
                    /\ \E a \in AtomsOf(membrane, r) :
                        \/ AtLeastHigherBy(SeenAt(a), midplane_cutoff)
                        \/ AtLeastLowerBy(SeenAt(a), midplane_cutoff))
                => Label(r) # 0
            /\ (midplane_cutoff = 0
                    /\ \E a \in AtomsOf(membrane, r) : ~Within(SeenAt(a), 0))
                => Label(r) # 0

\* a frame with a cutoff in force where a residue has an atom exactly
\* midplane_cutoff below its local midpoint and is labeled 0
C4_Witness ==
    /\ AssignRun
    /\ Processed
    /\ potential_midplane = None
    /\ midplane_cutoff > 0
    /\ \E r \in Residues(membrane) :
        /\ \E a \in AtomsOf(membrane, r) :
            /\ AtLeastLowerBy(SeenAt(a), midplane_cutoff)
            /\ ~LowerBy(SeenAt(a), midplane_cutoff)
        /\ Label(r) = 0

\* the label the upper/lower step gives residue r
UpperLowerLabel(r) ==
    IF \E a \in AtomsOf(membrane, r) : LowerBy(SeenAt(a), midplane_cutoff)
    THEN -1
    ELSE IF \E a \in AtomsOf(membrane, r) : HigherBy(SeenAt(a), midplane_cutoff)
    THEN 1
    ELSE 0

\* the midplane-eligible atoms of residue r
EligibleAtoms(r) ==
    IF potential_midplane = None THEN {} ELSE AtomsOf(potential_midplane, r)

\* C5, as claimed: with a midplane selection and midplane_cutoff > 0 an
\* eligible residue is labeled 0 if and only if all its eligible atoms lie
\* within the cutoff of their local midpoint, and otherwise keeps the label
\* of the upper/lower step; without the midplane step no label changes.
C5_MidplaneIffAllWithin ==
    (AssignRun /\ Processed) =>
        \A r \in Residues(membrane) :
            IF CheckMidplane /\ r \in EligibleResidues
            THEN /\ Label(r) = 0 <=>
                        \A a \in EligibleAtoms(r) :
                            Within(WrappedAt(a), midplane_cutoff)
                 /\ (\E a \in EligibleAtoms(r) :
                        FurtherBy(WrappedAt(a), midplane_cutoff))
                        => Label(r) = UpperLowerLabel(r)
            ELSE Label(r) = UpperLowerLabel(r)

\* C5, amended: with a midplane selection and midplane_cutoff > 0 an
\* eligible residue none of whose eligible atoms is more than the cutoff
\* from its local midpoint (an atom in a cell without a midpoint counts as
\* not further) is labeled 0; every other residue keeps the label of the
\* upper/lower step, which is 0 when none of its lipid_sel atoms is beyond
\* the cutoff; without the midplane step no label changes.
C5_MidplaneOverwrite ==
    (AssignRun /\ Processed) =>
        \A r \in Residues(membrane) :
            IF /\ CheckMidplane
               /\ r \in EligibleResidues
               /\ \A a \in EligibleAtoms(r) :
                    ~FurtherBy(WrappedAt(a), midplane_cutoff)
            THEN Label(r) = 0
            ELSE Label(r) = UpperLowerLabel(r)

\* the midplane step overwrote a leaflet label with 0, and left another
\* eligible residue's label alone
C5_Witness ==
    /\ AssignRun
    /\ Processed
    /\ CheckMidplane
    /\ \E r \in Residues(membrane) \cap EligibleResidues :
        /\ UpperLowerLabel(r) # 0
        /\ Label(r) = 0

\* the run: the array the analysis fills, and its fill value
Output == IF analysis = "AssignLeaflets" THEN leaflets ELSE areas

FillValue == IF analysis = "AssignLeaflets" THEN 0 ELSE NaN

\* the selected atoms / the residues of a species
SpeciesAtoms(name) == {a \in membrane : Resname(a) = name}

SpeciesResidues(name) == {r \in Residues(membrane) : u.resnames[r] = name}

\* the sum of the cell areas of the atoms s
RECURSIVE SumVolumes(_, _)
SumVolumes(volumes, s) ==
    IF s = {} THEN 0
    ELSE LET a == CHOOSE b \in s : TRUE
         IN volumes[a] + SumVolumes(volumes, s \ {a})

\* the sum of the Voronoi cell areas of residue r's own selected atoms
OwnArea(r) == SumVolumes(ts.volumes, AtomsOf(membrane, r))

\* the atom count of every species is a multiple of its residue count
Divisible ==
    \A s \in 1..Len(lipid_species) :
        Cardinality(SpeciesAtoms(lipid_species[s]))
            % Cardinality(SpeciesResidues(lipid_species[s])) = 0

\* every residue of a species has that species' seed count of selected atoms
SameSeedsPerResidue ==
    \A s \in 1..Len(lipid_species) :
        \A r \in SpeciesResidues(lipid_species[s]) :
            Cardinality(AtomsOf(membrane, r)) = num_seeds(lipid_species[s])

\* C6, as claimed: when each species' atom count is a multiple of its
\* residue count and the frame completes, every residue in a leaflet gets
\* the sum of the cell areas of its own selected atoms.
C6_OwnAreaIfDivisible ==
    (AreaRun /\ Processed /\ Divisible) =>
        \A r \in DOMAIN areas.data :
            FrameLeaflets(frame_index)[r] # 0 =>
                areas.data[r][frame_index] = OwnArea(r)

\* C6, amended: when every residue of a species has the same number of
\* selected atoms and the frame completes, every residue in a leaflet gets
\* the sum of the cell areas of its own selected atoms.
C6_OwnAreaIfSameSeeds ==
    (AreaRun /\ Processed /\ SameSeedsPerResidue) =>
        \A r \in DOMAIN areas.data :
            FrameLeaflets(frame_index)[r] # 0 =>
                areas.data[r][frame_index] = OwnArea(r)

\* two residues of one species, two atoms each, in the same leaflet, with
\* cells of different areas
C6_Witness ==
    /\ AreaRun
    /\ Processed
    /\ SameSeedsPerResidue
    /\ \E r, q \in DOMAIN areas.data :
        /\ r # q
        /\ u.resnames[r] = u.resnames[q]
        /\ FrameLeaflets(frame_index)[r] = FrameLeaflets(frame_index)[q]
        /\ FrameLeaflets(frame_index)[r] # 0
        /\ Cardinality(AtomsOf(membrane, r)) = 2
        /\ areas.data[r][frame_index] # areas.data[q][frame_index]

\* the atoms of a species in the leaflet of a sign at frame f
LeafletSpeciesAtoms(f, sign, name) ==
    {a \in SpeciesAtoms(name) : FrameLeaflets(f)[u.resindices[a]] = sign}

\* C7: when the atoms of a species in a leaflet are not a multiple of the
\* species' seed count, the frame fails, the run halts there, and the areas
\* of that species in that leaflet are not written.
C7_NotDivisibleFails ==
    AreaRun =>
        \A f \in 0..frame_index : \A sign \in {-1, 1} :
            \A s \in 1..Len(lipid_species) :
                LET atoms == LeafletSpeciesAtoms(f, sign, lipid_species[s])
                IN Cardinality(atoms) % num_seeds(lipid_species[s]) # 0 =>
                    /\ status = "error"
                    /\ error # NoError
                    /\ f = frame_index
                    /\ \A a \in atoms : areas.data[u.resindices[a]][f] = NaN

\* the reshape failed for the phospholipids of the upper leaflet after the
\* lower leaflet had been written
C7_Witness ==
    /\ AreaRun
    /\ status = "error"
    /\ error = "ValueError: cannot reshape array"
    /\ Cardinality(LeafletSpeciesAtoms(frame_index, 1, "POPC")) % num_seeds("POPC") # 0
    /\ \E r \in DOMAIN areas.data : areas.data[r][frame_index] # NaN

\* C8, as claimed: after _remove_overlapping no two atoms share an (x, y).
C8_NoSharedXY ==
    status = "returned" =>
        \A i, j \in 1..Len(positions) :
            i # j =>
                <<positions[i][1], positions[i][2]>>
                    # <<positions[j][1], positions[j][2]>>

\* three atoms at one point: the first was moved, the other two still
\* coincide
C8_Witness ==
    /\ status = "returned"
    /\ Len(positions) = 3
    /\ ts.positions[1] = ts.positions[2]
    /\ ts.positions[2] = ts.positions[3]
    /\ positions[1] # ts.positions[1]
    /\ positions[2] = positions[3]

\* C9, as claimed: every column of a frame that was not completed holds the
\* initial fill.
C9_UncompletedHoldFill ==
    Output.ndim = 2 =>
        \A f \in FrameRange : ~Completed(f) =>
            \A r \in DOMAIN Output.data : Output.data[r][f] = FillValue

\* the columns of the frames after the current one hold the initial fill,
\* and so does the current one unless its frame raised
C9_LaterHoldFill ==
    Output.ndim = 2 =>
        \A f \in FrameRange :
            (f > frame_index \/ (~Completed(f) /\ status # "error")) =>
                \A r \in DOMAIN Output.data : Output.data[r][f] = FillValue

\* a step writes no column but that of the frame it processes
C9_OwnColumnOnly ==
    Output.ndim = 2 =>
        \A f \in FrameRange : \A r \in DOMAIN Output.data :
            f # frame_index' => Output'.data[r][f] = Output.data[r][f]

\* C9, amended: the columns of completed frames keep their values, the
\* columns of the frames after the one being processed hold the initial
\* fill, a step writes only the column of its frame; the column of a frame
\* that raised may hold what was written before the exception.
C9_FrameGranular == []C9_LaterHoldFill /\ [][C9_OwnColumnOnly]_vars

\* a frame raised after part of its column had been written, with a frame
\* still to come
C9_Witness ==
    /\ Output.ndim = 2
    /\ status = "error"
    /\ frame_index + 1 < NFrames
    /\ \E r \in DOMAIN Output.data : Output.data[r][frame_index] # FillValue

\* C10, as claimed: for a frame of wrapped atoms the bin indices of every
\* membrane atom are in 0..n_bins-1 and the midpoint lookup does not fail.
C10_BinIndicesInRange ==
    (analysis = "AssignLeaflets" /\ ts # NoFrame) =>
        /\ error = NoError
        /\ \A a \in membrane :
            LET number == BinNumbers(membrane,
                              Wrapped(ts.positions, ts.dimensions, membrane),
                              Linspace(ts.dimensions[1], n_bins))[a]
            IN number[1] - 1 \in 0..(n_bins - 1) /\ number[2] - 1 \in 0..(n_bins - 1)

\* a frame whose box is longer in y than in x, with a membrane atom at
\* y > Lx, raised IndexError
C10_Witness ==
    /\ analysis = "AssignLeaflets"
    /\ status = "error"
    /\ error = "IndexError"
    /\ n_bins > 1
    /\ ts.dimensions[2] > ts.dimensions[1]
    /\ \E a \in membrane : WrappedAt(a)[2] > ts.dimensions[1]

\* the residues in the leaflet of a sign at the frame in ts
LeafletResidues(sign) ==
    {r \in Residues(membrane) : FrameLeaflets(frame_index)[r] = sign}

\* no two selected atoms of the frame in ts share an (x, y)
SeparateInXY ==
    \A a, b \in membrane :
        a # b =>
            <<WrappedAt(a)[1], WrappedAt(a)[2]>> # <<WrappedAt(b)[1], WrappedAt(b)[2]>>

\* C11, as claimed: on a frame in which one of the two leaflets has no
\* residues (the selection well formed, no atoms overlapping),
\* AreaPerLipid._single_frame completes without error and the areas of the
\* residues of the other leaflet are written.
C11_EmptyLeafletSkipped ==
    (/\ AreaRun
     /\ ts # NoFrame
     /\ SameSeedsPerResidue
     /\ SeparateInXY
     /\ \E sign \in {-1, 1} : LeafletResidues(sign) = {}) =>
        /\ error = NoError
        /\ status = "frame"
        /\ \A r \in LeafletResidues(-1) \cup LeafletResidues(1) :
            areas.data[r][frame_index] # NaN

\* a frame with every residue in the upper leaflet raised in
\* _remove_overlapping and left the whole column not-a-number
C11_Witness ==
    /\ AreaRun
    /\ ts # NoFrame
    /\ SameSeedsPerResidue
    /\ SeparateInXY
    /\ LeafletResidues(-1) = {}
    /\ LeafletResidues(1) = Residues(membrane)
    /\ status = "error"
    /\ error = "ValueError: max() arg is an empty sequence"
    /\ \A r \in Residues(membrane) : areas.data[r][frame_index] = NaN

====
